---- MODULE Spec2Model ----
(***************************************************************************)
(* Model of src/src/conversion.rs: flatten() and unflatten(), the          *)
(* conversions between nested and dot-flattened YAML values.               *)
(*                                                                         *)
(* A String is a sequence of one-character strings, so that join and split *)
(* on the separator are computed, not assumed.  A serde_yaml_ng Value is a *)
(* record with the same fields for every variant:                          *)
(*   kind  : "Null" "Bool" "Number" "String" "Sequence" "Mapping" "Tagged" *)
(*   b     : the boolean of a Bool                                         *)
(*   n     : the number of a Number (naturals only)                        *)
(*   s     : the characters of a String                                    *)
(*   keys  : the keys of a Mapping, in insertion order                     *)
(*   items : the values of a Mapping (items[i] belongs to keys[i]), or the *)
(*           elements of a Sequence                                        *)
(***************************************************************************)
EXTENDS Integers, Sequences, FiniteSets, TLC

VARIABLES
    call,          \* the entry point the caller invoked: "flatten" or "unflatten"
    pc,            \* position: "flatten", "flattened", "for", "inner", "done"
    tree,          \* flatten's argument `input`
    flat,          \* what flatten() came to: [panic, output]
    input,         \* unflatten's argument `input`, a sequence of [key, value]
    i,             \* index of the pair the for loop of unflatten is at
    mapping,       \* unflatten's local `mapping`, the root under construction
    cursor,        \* `outermost_mapping`: the tokens leading from the root to it
    split_by_dot,  \* the segments the iterator `split_by_dot` has yet to yield
    result         \* what unflatten() came to: Ok / Err / Panic / None (not returned)

vars == <<call, pc, tree, flat, input, i, mapping, cursor, split_by_dot, result>>

\* const DOT: &str = "."
DOT == "."

----------------------------------------------------------------------------
(* serde_yaml_ng::Value *)

Null == [kind |-> "Null", b |-> FALSE, n |-> 0, s |-> <<>>, keys |-> <<>>, items |-> <<>>]
Bool(x) == [kind |-> "Bool", b |-> x, n |-> 0, s |-> <<>>, keys |-> <<>>, items |-> <<>>]
Number(x) == [kind |-> "Number", b |-> FALSE, n |-> x, s |-> <<>>, keys |-> <<>>, items |-> <<>>]
String(x) == [kind |-> "String", b |-> FALSE, n |-> 0, s |-> x, keys |-> <<>>, items |-> <<>>]
Sequence(x) == [kind |-> "Sequence", b |-> FALSE, n |-> 0, s |-> <<>>, keys |-> <<>>, items |-> x]
MappingOf(ks, vs) == [kind |-> "Mapping", b |-> FALSE, n |-> 0, s |-> <<>>, keys |-> ks, items |-> vs]
Tagged == [kind |-> "Tagged", b |-> FALSE, n |-> 0, s |-> <<>>, keys |-> <<>>, items |-> <<>>]

\* Mapping::new()
MappingNew == MappingOf(<<>>, <<>>)

IsLeafKind(v) == v.kind \in {"Null", "Bool", "Number", "String", "Sequence"}

\* Value's PartialEq: variants compare by content; a Mapping is an IndexMap,
\* whose equality ignores insertion order.
RECURSIVE ValueEq(_, _)
ValueEq(v, w) ==
    /\ v.kind = w.kind
    /\ CASE v.kind = "Bool" -> v.b = w.b
         [] v.kind = "Number" -> v.n = w.n
         [] v.kind = "String" -> v.s = w.s
         [] v.kind = "Sequence" ->
                /\ Len(v.items) = Len(w.items)
                /\ \A j \in 1..Len(v.items) : ValueEq(v.items[j], w.items[j])
         [] v.kind = "Mapping" ->
                /\ Len(v.keys) = Len(w.keys)
                /\ \A j \in 1..Len(v.keys) :
                      \E k \in 1..Len(w.keys) :
                          /\ ValueEq(v.keys[j], w.keys[k])
                          /\ ValueEq(v.items[j], w.items[k])
         [] OTHER -> TRUE

\* Mapping::get: the position of `key` in mapping m, 0 for None.
MappingIndex(m, key) ==
    IF \E j \in 1..Len(m.keys) : ValueEq(m.keys[j], key)
    THEN CHOOSE j \in 1..Len(m.keys) : ValueEq(m.keys[j], key)
    ELSE 0

\* Mapping::insert: replaces the value of a key already there (keeping its
\* place), appends a new key.
MappingInsert(m, key, value) ==
    LET j == MappingIndex(m, key)
    IN  IF j # 0
        THEN MappingOf(m.keys, [m.items EXCEPT ![j] = value])
        ELSE MappingOf(Append(m.keys, key), Append(m.items, value))

----------------------------------------------------------------------------
(* Strings *)

\* The byte of a character: String's Ord is byte-wise.
CharCode(c) ==
    CASE c = "." -> 46
      [] c = "0" -> 48 [] c = "1" -> 49 [] c = "2" -> 50 [] c = "3" -> 51
      [] c = "4" -> 52 [] c = "5" -> 53 [] c = "6" -> 54 [] c = "7" -> 55
      [] c = "8" -> 56 [] c = "9" -> 57
      [] c = "a" -> 97 [] c = "b" -> 98 [] c = "c" -> 99 [] c = "e" -> 101
      [] c = "f" -> 102 [] c = "l" -> 108 [] c = "r" -> 114 [] c = "s" -> 115
      [] c = "t" -> 116 [] c = "u" -> 117

\* String's Ord: lexicographic on bytes.
RECURSIVE StrLess(_, _)
StrLess(s, t) ==
    IF t = <<>> THEN FALSE
    ELSE IF s = <<>> THEN TRUE
    ELSE IF CharCode(Head(s)) # CharCode(Head(t))
         THEN CharCode(Head(s)) < CharCode(Head(t))
         ELSE StrLess(Tail(s), Tail(t))

\* bool::to_string
BoolToString(x) == IF x THEN <<"t", "r", "u", "e">> ELSE <<"f", "a", "l", "s", "e">>

Digit(d) == CASE d = 0 -> "0" [] d = 1 -> "1" [] d = 2 -> "2" [] d = 3 -> "3"
              [] d = 4 -> "4" [] d = 5 -> "5" [] d = 6 -> "6" [] d = 7 -> "7"
              [] d = 8 -> "8" [] d = 9 -> "9"

\* Number::to_string, for a natural number: its decimal digits.
RECURSIVE NumberToString(_)
NumberToString(x) ==
    IF x < 10 THEN <<Digit(x)>>
    ELSE NumberToString(x \div 10) \o <<Digit(x % 10)>>

\* Join with the separator forgotten.
RECURSIVE JoinNoSeparator(_)
JoinNoSeparator(path) ==
    IF path = <<>> THEN <<>> ELSE Head(path) \o JoinNoSeparator(Tail(path))

\* path.join(DOT)
RECURSIVE Join(_)
Join(path) ==
    IF path = <<>> THEN <<>>
    ELSE IF Len(path) = 1 THEN path[1]
    ELSE path[1] \o <<DOT>> \o Join(Tail(path))

\* str::split(DOT), as the sequence of all the segments the iterator yields:
\* one more segment than there are separators, empty ones included.
RECURSIVE SplitAt(_)
SplitAt(s) ==
    IF \A j \in 1..Len(s) : s[j] # DOT
    THEN <<s>>
    ELSE LET d == CHOOSE j \in 1..Len(s) :
                      s[j] = DOT /\ \A k \in 1..(j - 1) : s[k] # DOT
         IN  <<SubSeq(s, 1, d - 1)>> \o SplitAt(SubSeq(s, d + 1, Len(s)))

\* The split with its empty segments left out.
SplitNoEmpty(key) == SelectSeq(SplitAt(key), LAMBDA seg : seg # <<>>)

\* key.split(DOT)
Split(key) == SplitAt(key)

----------------------------------------------------------------------------
(* flatten *)

\* BTreeMap<String, Value>: a sequence of [key, value] kept sorted by key.
BTreeNew == <<>>

\* BTreeMap::insert: the value of a key already there is replaced.
BTreeInsert(map, k, v) ==
    IF \E j \in 1..Len(map) : map[j].key = k
    THEN [j \in 1..Len(map) |->
             IF map[j].key = k THEN [key |-> k, value |-> v] ELSE map[j]]
    ELSE LET p == Cardinality({j \in 1..Len(map) : StrLess(map[j].key, k)})
         IN  SubSeq(map, 1, p) \o <<[key |-> k, value |-> v]>>
                 \o SubSeq(map, p + 1, Len(map))

\* BTreeMap::get, for a key that is there.
BTreeGet(map, k) == map[CHOOSE j \in 1..Len(map) : map[j].key = k].value

BTreeHas(map, k) == \E j \in 1..Len(map) : map[j].key = k

\* The leaf arms without their `if !path.is_empty()`.
FlattenLeafUnguarded(output, path, v) ==
    [panic |-> FALSE, output |-> BTreeInsert(output, Join(path), v)]

\* The tagged arm taken for one more leaf arm.
FlattenTaggedAsLeaf(output, path, v) ==
    [panic |-> FALSE,
     output |-> IF path # <<>> THEN BTreeInsert(output, Join(path), v) ELSE output]

\* The arms of a scalar and of a Sequence: an entry under the joined path,
\* nothing when the path stack is empty.
FlattenLeaf(output, path, v) ==
    [panic |-> FALSE,
     output |-> IF path # <<>> THEN BTreeInsert(output, Join(path), v) ELSE output]

\* Value::Tagged(_) => unimplemented!()
FlattenTagged(output, path, v) == [panic |-> TRUE, output |-> output]

\* The match on a mapping key: ok is FALSE where the code is unreachable!().
KeyToString(key) ==
    CASE key.kind = "Null" -> [ok |-> FALSE, s |-> <<>>]
      [] key.kind = "Bool" -> [ok |-> TRUE, s |-> BoolToString(key.b)]
      [] key.kind = "Number" -> [ok |-> TRUE, s |-> NumberToString(key.n)]
      [] key.kind = "String" -> [ok |-> TRUE, s |-> key.s]
      [] OTHER -> [ok |-> FALSE, s |-> <<>>]

\* _flatten: [panic, output], the output map after the call.  The path stack
\* is pushed for the recursive call and is as before after it (path.pop()).
RECURSIVE _flatten(_, _, _)
RECURSIVE FlattenEntries(_, _, _, _)
_flatten(output, path, v) ==
    CASE v.kind = "Tagged" -> FlattenTagged(output, path, v)
      [] v.kind = "Mapping" -> FlattenEntries(output, path, v, 1)
      [] OTHER -> FlattenLeaf(output, path, v)

\* The loop without its `path.pop()`: the segment of an entry stays on the
\* path stack for the entries after it.
RECURSIVE FlattenEntriesNoPop(_, _, _, _)
FlattenEntriesNoPop(output, path, m, j) ==
    IF j > Len(m.keys) THEN [panic |-> FALSE, output |-> output]
    ELSE LET k == KeyToString(m.keys[j])
         IN  IF ~k.ok THEN [panic |-> TRUE, output |-> output]
             ELSE LET r == _flatten(output, Append(path, k.s), m.items[j])
                  IN  IF r.panic THEN r
                      ELSE FlattenEntriesNoPop(r.output, Append(path, k.s), m, j + 1)

\* for (key, value) in mapping, from entry j on.
FlattenEntries(output, path, m, j) ==
    IF j > Len(m.keys) THEN [panic |-> FALSE, output |-> output]
    ELSE LET k == KeyToString(m.keys[j])
         IN  IF ~k.ok THEN [panic |-> TRUE, output |-> output]
             ELSE LET r == _flatten(output, Append(path, k.s), m.items[j])
                  IN  IF r.panic THEN r
                      ELSE FlattenEntries(r.output, path, m, j + 1)

\* flatten(input): a panic returns no output.
flatten(v) ==
    LET r == _flatten(BTreeNew, <<>>, v)
    IN  IF r.panic THEN [panic |-> TRUE, output |-> BTreeNew] ELSE r

----------------------------------------------------------------------------
(* unflatten *)

\* Result<Value, Error>, with the two ways the call can end otherwise: a panic
\* (an expect or unwrap that failed) and not having returned yet.
NoResult == [kind |-> "None", value |-> Null, key |-> <<>>, token |-> <<>>]
Ok(v) == [kind |-> "Ok", value |-> v, key |-> <<>>, token |-> <<>>]
\* Err(Error::DuplicateValue { key, token })
DuplicateValue(k, t) == [kind |-> "Err", value |-> Null, key |-> k, token |-> t]
Panic == [kind |-> "Panic", value |-> Null, key |-> <<>>, token |-> <<>>]

\* The mapping that `outermost_mapping` refers to: the one reached from the
\* root through the tokens of the cursor.
RECURSIVE MappingAt(_, _)
MappingAt(root, cur) ==
    IF cur = <<>> THEN root
    ELSE MappingAt(root.items[MappingIndex(root, Head(cur))], Tail(cur))

\* The root after a write through `outermost_mapping`, which becomes m.
RECURSIVE WriteAt(_, _, _)
WriteAt(root, cur, m) ==
    IF cur = <<>> THEN m
    ELSE LET j == MappingIndex(root, Head(cur))
         IN  MappingOf(root.keys,
                       [root.items EXCEPT ![j] = WriteAt(root.items[j], Tail(cur), m)])

\* The arm `exist` without its `else if let Value::Mapping`: an entry that
\* is there is a duplicate, whatever it is.
ExistArmNoDescend(root, cur, rest, key, token_str, key_is_last_key) ==
    [outcome |-> "return", mapping |-> root, cursor |-> cur,
     split |-> rest, result |-> DuplicateValue(key, token_str)]

\* The arm `exist`: the token of the path is already a key of the mapping.
ExistArm(root, cur, rest, key, token_str, key_is_last_key) ==
    LET token == String(token_str)
        outer == MappingAt(root, cur)
        j == MappingIndex(outer, token)
    IN  IF j = 0
        THEN \* .expect("should be Some as `exist` is true")
             [outcome |-> "panic", mapping |-> root, cursor |-> cur,
              split |-> rest, result |-> Panic]
        ELSE IF key_is_last_key
        THEN [outcome |-> "return", mapping |-> root, cursor |-> cur,
              split |-> rest, result |-> DuplicateValue(key, token_str)]
        ELSE IF outer.items[j].kind = "Mapping"
        THEN [outcome |-> "continue", mapping |-> root,
              cursor |-> Append(cur, token), split |-> rest, result |-> NoResult]
        ELSE [outcome |-> "return", mapping |-> root, cursor |-> cur,
              split |-> rest, result |-> DuplicateValue(key, token_str)]

\* The insert arms with `outermost_mapping = newly_inserted_mapping` left out:
\* the new mapping is inserted and the walk stays where it was.
InsertArmNoDescend(root, cur, rest, value, token_str, key_is_last_key) ==
    LET token == String(token_str)
        outer == MappingAt(root, cur)
    IN  [outcome |-> IF key_is_last_key THEN "break" ELSE "continue",
         mapping |-> WriteAt(root, cur,
                         MappingInsert(outer, token,
                             IF key_is_last_key THEN value ELSE MappingNew)),
         cursor |-> cur, split |-> rest, result |-> NoResult]

\* The arms of a token that is no key of the mapping yet.
InsertArm(root, cur, rest, value, token_str, key_is_last_key) ==
    LET token == String(token_str)
        outer == MappingAt(root, cur)
    IN  IF key_is_last_key
        THEN [outcome |-> "break",
              mapping |-> WriteAt(root, cur, MappingInsert(outer, token, value)),
              cursor |-> cur, split |-> rest, result |-> NoResult]
        ELSE LET grown == MappingInsert(outer, token, MappingNew)
                 j == MappingIndex(grown, token)
             IN  IF j = 0 \/ grown.items[j].kind # "Mapping"
                 THEN \* .get_mut(&token).unwrap().as_mapping_mut().unwrap()
                      [outcome |-> "panic", mapping |-> root, cursor |-> cur,
                       split |-> rest, result |-> Panic]
                 ELSE [outcome |-> "continue",
                       mapping |-> WriteAt(root, cur, grown),
                       cursor |-> Append(cur, token), split |-> rest,
                       result |-> NoResult]

\* One iteration of 'inner, for the pair (key, value): what it leaves of the
\* root, the cursor and the iterator, and how it ends ("continue" with the
\* loop, "break" out of it, "return" an Err, or "panic").
InnerStep(root, cur, split, key, value) ==
    IF split = <<>>
    THEN \* .expect("should be Some, guarded by last iteration")
         [outcome |-> "panic", mapping |-> root, cursor |-> cur,
          split |-> split, result |-> Panic]
    ELSE LET token_str == Head(split)
             rest == Tail(split)
             key_is_last_key == (rest = <<>>)
             exist == MappingIndex(MappingAt(root, cur), String(token_str)) # 0
         IN  IF exist
             THEN ExistArm(root, cur, rest, key, token_str, key_is_last_key)
             ELSE InsertArm(root, cur, rest, value, token_str, key_is_last_key)

\* The loop 'inner run to its end for one pair.
RECURSIVE Walk(_, _, _, _, _)
Walk(root, cur, split, key, value) ==
    LET r == InnerStep(root, cur, split, key, value)
    IN  IF r.outcome = "continue"
        THEN Walk(r.mapping, r.cursor, r.split, key, value)
        ELSE r

\* The for loop of unflatten from pair j on, with `mapping` being root.
RECURSIVE UnflattenFrom(_, _, _)
UnflattenFrom(root, pairs, j) ==
    IF j > Len(pairs) THEN Ok(root)
    ELSE LET r == Walk(root, <<>>, Split(pairs[j].key), pairs[j].key, pairs[j].value)
         IN  IF r.outcome = "break"
             THEN UnflattenFrom(r.mapping, pairs, j + 1)
             ELSE r.result

\* unflatten(input), as a function of its argument.
unflatten(pairs) == UnflattenFrom(MappingNew, pairs, 1)

----------------------------------------------------------------------------
(* The arguments the entry points are called with *)

\* The most mapping entries, at all depths together, of a tree given to flatten.
MaxEntries == 3
\* The most pairs given to unflatten.
MaxPairs == 3

\* Mapping keys: a boolean, a number, strings without and with the separator
\* and the empty one, and a key that is no literal.  ("a.a" under the root
\* and "a" under "a" are two places of one path.)
KeyValues ==
    {Bool(TRUE), Number(1), String(<<"a">>), String(<<"a", ".", "a">>), String(<<>>),
     Null}

\* What a mapping holds besides mappings: a scalar, a sequence (with a tagged
\* element in it), and a tagged value.
LeafValues == {Null, Sequence(<<Tagged>>), Tagged}

\* What the root can be besides a mapping: every other variant.
RootValues ==
    LeafValues \cup {Bool(FALSE), Number(1), String(<<"a">>), Sequence(<<>>)}

\* The values, and the mappings, of at most n mapping entries in all; the keys
\* of a mapping are distinct.
RECURSIVE Values(_)
RECURSIVE Mappings(_)
Values(n) == LeafValues \cup Mappings(n)
Mappings(n) ==
    {MappingNew} \cup
    UNION {UNION {{MappingOf(<<k>> \o m.keys, <<v>> \o m.items) :
                      k \in {x \in KeyValues : \A j \in 1..Len(m.keys) : m.keys[j] # x}} :
                  v \in Values(c), m \in Mappings(n - 1 - c)} :
           c \in 0..(n - 1)}

\* tree is a value of at most MaxEntries mapping entries in all: a leaf, or a
\* mapping, which is empty or has a first entry (k, v) before the others (m).
IsInputTree(t) ==
    \/ t \in RootValues \cup {MappingNew}
    \/ \E c \in 0..(MaxEntries - 1) :
          \E v \in Values(c), m \in Mappings(MaxEntries - 1 - c), k \in KeyValues :
              /\ \A j \in 1..Len(m.keys) : m.keys[j] # k
              /\ t = MappingOf(<<k>> \o m.keys, <<v>> \o m.items)

\* Paths given to unflatten: of one to three segments, each a prefix of the
\* next, one with an empty last segment, and the empty path.
PairKeys ==
    {<<>>, <<"a">>, <<"a", ".", "b">>, <<"a", ".", "b", ".", "c">>, <<"a", ".">>}

\* Values given to unflatten: leaves, and mappings (empty and not).
PairValues ==
    {Null, Sequence(<<Number(1)>>), MappingNew, MappingOf(<<String(<<"b">>)>>, <<Null>>)}

Pairs == [key : PairKeys, value : PairValues]

PairSeqs == UNION {[1..n -> Pairs] : n \in 0..MaxPairs}

----------------------------------------------------------------------------
(* The calls, step by step *)

\* What no call has touched yet.
Fresh ==
    /\ flat = [panic |-> FALSE, output |-> BTreeNew]
    /\ i = 1
    /\ mapping = MappingNew
    /\ cursor = <<>>
    /\ split_by_dot = <<>>
    /\ result = NoResult

\* A call of flatten, on any tree.
Init ==
    /\ Fresh
    /\ call = "flatten"
    /\ pc = "flatten"
    /\ IsInputTree(tree)
    /\ input = <<>>

\* A call of unflatten, on any sequence of pairs.
InitUnflatten ==
    /\ Fresh
    /\ call = "unflatten"
    /\ pc = "unflatten"
    /\ tree = Null
    /\ input \in PairSeqs

\* flatten(input), run to its end (it has no state of its own to observe).
Flatten ==
    /\ pc = "flatten"
    /\ flat' = flatten(tree)
    /\ pc' = "flattened"
    /\ UNCHANGED <<call, tree, input, i, mapping, cursor, split_by_dot, result>>

\* The round trip: the entries of the flat mapping, in the order a BTreeMap
\* yields them, become the argument of unflatten.  A flatten that panicked
\* has returned nothing to go on with.
RoundTrip ==
    /\ pc = "flattened"
    /\ ~flat.panic
    /\ input' = flat.output
    /\ pc' = "unflatten"
    /\ UNCHANGED <<call, tree, flat, i, mapping, cursor, split_by_dot, result>>

\* let mut mapping = Mapping::new();
UnflattenEnter ==
    /\ pc = "unflatten"
    /\ mapping' = MappingNew
    /\ i' = 1
    /\ pc' = "for"
    /\ UNCHANGED <<call, tree, flat, input, cursor, split_by_dot, result>>

\* for (key, value) in input: the next pair; its key is split and the walk
\* starts at the root.
UnflattenFor ==
    /\ pc = "for"
    /\ i <= Len(input)
    /\ split_by_dot' = Split(input[i].key)
    /\ cursor' = <<>>
    /\ pc' = "inner"
    /\ UNCHANGED <<call, tree, flat, input, i, mapping, result>>

\* Ok(Value::Mapping(mapping)), the input being used up.
UnflattenReturn ==
    /\ pc = "for"
    /\ i > Len(input)
    /\ result' = Ok(mapping)
    /\ pc' = "done"
    /\ UNCHANGED <<call, tree, flat, input, i, mapping, cursor, split_by_dot>>

\* One iteration of 'inner.
UnflattenInner ==
    /\ pc = "inner"
    /\ LET r == InnerStep(mapping, cursor, split_by_dot, input[i].key, input[i].value)
       IN  /\ mapping' = r.mapping
           /\ cursor' = r.cursor
           /\ split_by_dot' = r.split
           /\ result' = r.result
           /\ pc' = CASE r.outcome = "continue" -> "inner"
                      [] r.outcome = "break" -> "for"
                      [] OTHER -> "done"
           /\ i' = IF r.outcome = "break" THEN i + 1 ELSE i
    /\ UNCHANGED <<call, tree, flat, input>>

Next ==
    \/ Flatten
    \/ RoundTrip
    \/ UnflattenEnter
    \/ UnflattenFor
    \/ UnflattenReturn
    \/ UnflattenInner

\* flatten, and unflatten on what it returned.
Spec == Init /\ [][Next]_vars

NextUnflatten ==
    \/ UnflattenEnter
    \/ UnflattenFor
    \/ UnflattenReturn
    \/ UnflattenInner

\* unflatten on its own.
SpecUnflatten == InitUnflatten /\ [][NextUnflatten]_vars

----------------------------------------------------------------------------
(* Properties of flatten, and of the round trip *)

\* flatten has returned (without a panic).
Flattened == pc # "flatten" /\ ~flat.panic

\* Every key of every mapping of v (sequences are not looked into) is a
\* string without a separator.
RECURSIVE PlainKeys(_)
PlainKeys(v) ==
    v.kind = "Mapping" =>
        \A j \in 1..Len(v.keys) :
            /\ v.keys[j].kind = "String"
            /\ \A k \in 1..Len(v.keys[j].s) : v.keys[j].s[k] # DOT
            /\ PlainKeys(v.items[j])

\* No mapping held by a mapping of v is empty.
RECURSIVE NoEmptyMappingBelow(_)
NoEmptyMappingBelow(v) ==
    v.kind = "Mapping" =>
        \A j \in 1..Len(v.keys) :
            /\ v.items[j] # MappingNew
            /\ NoEmptyMappingBelow(v.items[j])

\* The nesting depth of the mappings of v.
RECURSIVE Depth(_)
Depth(v) ==
    IF v.kind # "Mapping" THEN 0
    ELSE LET below == {Depth(v.items[j]) : j \in 1..Len(v.keys)} \cup {0}
         IN  1 + (CHOOSE d \in below : \A e \in below : e <= d)

\* C1 as stated: whenever flatten succeeds on the tree, unflatten of the
\* entries of its result returns Ok with a tree equal to it.
RoundTripOfAnyTree ==
    (call = "flatten" /\ pc = "done") =>
        (result.kind = "Ok" /\ ValueEq(result.value, tree))

\* C1 as amended: the round trip returns Ok with a tree equal to T for every
\* T that is a mapping whose keys, at every depth, are strings without a
\* separator and that holds no empty mapping.
RoundTripOfPlainTree ==
    (call = "flatten" /\ pc = "done" /\ tree.kind = "Mapping"
        /\ PlainKeys(tree) /\ NoEmptyMappingBelow(tree)) =>
        (result.kind = "Ok" /\ ValueEq(result.value, tree))

\* A round trip through two nested mappings that share a prefix, done.
RoundTripOfPlainTreeWitness ==
    /\ call = "flatten" /\ pc = "done"
    /\ tree.kind = "Mapping" /\ PlainKeys(tree) /\ NoEmptyMappingBelow(tree)
    /\ Depth(tree) = 2
    /\ Len(flat.output) = 2
    /\ result.kind = "Ok"

\* The leaves of v reached through mapping keys, as [path, value]: path is
\* the rendered keys from v down to the leaf, prefix being those above v.
RECURSIVE LeavesOf(_, _)
LeavesOf(v, prefix) ==
    CASE v.kind = "Mapping" ->
             UNION {LeavesOf(v.items[j], Append(prefix, KeyToString(v.keys[j]).s)) :
                        j \in 1..Len(v.keys)}
      [] v.kind = "Tagged" -> {}
      [] OTHER -> IF prefix = <<>> THEN {} ELSE {[path |-> prefix, at |-> v]}

\* The number of leaves of v reached through at least one mapping key.
RECURSIVE CountLeaves(_, _)
CountLeaves(v, below) ==
    CASE v.kind = "Mapping" /\ v.keys = <<>> -> 0
      [] v.kind = "Mapping" ->
             CountLeaves(v.items[1], TRUE)
                 + CountLeaves(MappingOf(Tail(v.keys), Tail(v.items)), below)
      [] v.kind = "Tagged" -> 0
      [] OTHER -> IF below THEN 1 ELSE 0

\* All orders of the elements of a sequence of distinct elements.
Orders(n) == {f \in [1..n -> 1..n] : \A a, b \in 1..n : a # b => f[a] # f[b]}

\* The trees equal to v that differ from it in the insertion order of mappings.
RECURSIVE Reorderings(_)
Reorderings(v) ==
    IF v.kind # "Mapping" THEN {v}
    ELSE LET n == Len(v.keys)
         IN  UNION {{MappingOf([j \in 1..n |-> v.keys[f[j]]], vs) :
                        vs \in {ws \in [1..n -> UNION {Reorderings(v.items[j]) : j \in 1..n}] :
                                   \A j \in 1..n : ws[j] \in Reorderings(v.items[f[j]])}} :
                    f \in Orders(n)}

\* Two flat mappings have the same keys and an equal value for every key.
SameFlat(m1, m2) ==
    /\ Len(m1) = Len(m2)
    /\ \A j \in 1..Len(m1) :
          /\ m1[j].key = m2[j].key
          /\ ValueEq(m1[j].value, m2[j].value)

\* C5 as stated: flatten of a tree equal to the input, its mappings filled in
\* any other order, returns a flat mapping of the same keys and values.
FlattenIgnoresInsertionOrder ==
    Flattened =>
        \A t \in Reorderings(tree) :
            /\ ~flatten(t).panic
            /\ SameFlat(flatten(t).output, flat.output)

\* C6 as stated: the flat mapping has one entry for each leaf reached
\* through at least one mapping key, no two leaves sharing a path string.
OneEntryPerLeaf ==
    Flattened => Len(flat.output) = CountLeaves(tree, FALSE)

\* A tagged value is the root or is held by a mapping, at any depth, of v.
RECURSIVE TaggedOutsideSequences(_)
TaggedOutsideSequences(v) ==
    \/ v.kind = "Tagged"
    \/ /\ v.kind = "Mapping"
       /\ \E j \in 1..Len(v.keys) : TaggedOutsideSequences(v.items[j])

\* A tagged value is anywhere in v, the elements of sequences included.
RECURSIVE TaggedAnywhere(_)
TaggedAnywhere(v) ==
    \/ v.kind = "Tagged"
    \/ /\ v.kind \in {"Mapping", "Sequence"}
       /\ \E j \in 1..Len(v.items) : TaggedAnywhere(v.items[j])

\* Every key of every mapping of v is a boolean, a number or a string.
RECURSIVE LiteralKeys(_)
LiteralKeys(v) ==
    v.kind = "Mapping" =>
        \A j \in 1..Len(v.keys) :
            /\ v.keys[j].kind \in {"Bool", "Number", "String"}
            /\ LiteralKeys(v.items[j])

\* C7 as stated: flatten panics whenever a tagged value is anywhere in the
\* tree, also as an element of a sequence.
PanicsOnTaggedAnywhere ==
    (pc # "flatten" /\ TaggedAnywhere(tree)) => flat.panic

\* C7 as amended: flatten panics whenever a tagged value is the root or the
\* value of a mapping entry at any depth; a tagged value that is only an
\* element of a sequence is not visited, and flatten (of a tree with literal
\* keys) returns.
PanicsOnTaggedOutsideSequences ==
    pc # "flatten" =>
        /\ TaggedOutsideSequences(tree) => flat.panic
        /\ (~TaggedOutsideSequences(tree) /\ LiteralKeys(tree)) => ~flat.panic

\* flatten has panicked on a tagged value two mappings down.
PanicsOnTaggedWitness ==
    /\ pc = "flattened" /\ flat.panic
    /\ tree.kind = "Mapping"
    /\ \E j \in 1..Len(tree.keys) :
          /\ tree.items[j].kind = "Mapping"
          /\ \E k \in 1..Len(tree.items[j].keys) : tree.items[j].items[k] = Tagged

\* The string is not empty and no segment of it is.
NoEmptySegment(s) == \A j \in 1..Len(SplitAt(s)) : SplitAt(s)[j] # <<>>

\* Every key of every mapping of v renders to a string that has no empty
\* segment.
RECURSIVE KeysWithoutEmptySegment(_)
KeysWithoutEmptySegment(v) ==
    v.kind = "Mapping" =>
        \A j \in 1..Len(v.keys) :
            /\ KeyToString(v.keys[j]).ok
            /\ NoEmptySegment(KeyToString(v.keys[j]).s)
            /\ KeysWithoutEmptySegment(v.items[j])

\* C9 as stated: every key of the flat mapping is a non-empty string without
\* an empty segment.
FlatKeysHaveNoEmptySegment ==
    Flattened => \A j \in 1..Len(flat.output) : NoEmptySegment(flat.output[j].key)

\* C9 as amended: every key of the flat mapping is a non-empty string without
\* an empty segment, provided every mapping key of the tree renders to a
\* non-empty string without an empty segment (a key that is the empty string,
\* or that begins or ends with the separator or has two in a row, comes out
\* in the path as it is).
FlatKeysOfSoundKeysHaveNoEmptySegment ==
    (Flattened /\ KeysWithoutEmptySegment(tree)) =>
        \A j \in 1..Len(flat.output) : NoEmptySegment(flat.output[j].key)

\* flatten has returned a path of three segments, from keys that have no
\* empty segment.
FlatKeysWitness ==
    /\ pc = "flattened" /\ ~flat.panic
    /\ KeysWithoutEmptySegment(tree)
    /\ \E j \in 1..Len(flat.output) : Len(SplitAt(flat.output[j].key)) = 3

\* C10 as stated: every leaf reached through the keys k1..kn (n >= 1) is the
\* value, unchanged, of the entry whose key is the rendered keys joined by
\* the separator.
EveryLeafUnderItsPath ==
    Flattened =>
        \A l \in LeavesOf(tree, <<>>) :
            /\ BTreeHas(flat.output, Join(l.path))
            /\ BTreeGet(flat.output, Join(l.path)) = l.at

----------------------------------------------------------------------------
(* Properties of unflatten *)

\* Sequence p is a prefix of sequence q, or q itself.
IsPrefix(p, q) == Len(p) <= Len(q) /\ SubSeq(q, 1, Len(p)) = p

\* Two paths are the same place, or one is above the other.
Conflict(p, q) ==
    IsPrefix(SplitAt(p), SplitAt(q)) \/ IsPrefix(SplitAt(q), SplitAt(p))

\* Two of the pairs are in conflict.
HasConflict(pairs) ==
    \E j, k \in 1..Len(pairs) : j < k /\ Conflict(pairs[j].key, pairs[k].key)

\* unflatten has returned or panicked.
UnflattenDone == call = "unflatten" /\ pc = "done"

\* C2 as stated: unflatten returns Err(DuplicateValue) whenever two of the
\* pairs have the same path or one path is a strict prefix of the other, so
\* that no tree it returns has a place and a place above it both given.
ConflictingPathsAreRejected ==
    (UnflattenDone /\ HasConflict(input)) => result.kind = "Err"

\* Pair j is the first one in conflict with a pair before it.
FirstInConflict(pairs, j) ==
    /\ \E k \in 1..(j - 1) : Conflict(pairs[k].key, pairs[j].key)
    /\ \A l \in 1..(j - 1) :
          \A k \in 1..(l - 1) : ~Conflict(pairs[k].key, pairs[l].key)

\* The last segment of the shorter of two paths (of the second one when they
\* are as long).
LastOfShorter(p, q) ==
    LET sp == SplitAt(p)
        sq == SplitAt(q)
    IN  IF Len(sp) < Len(sq) THEN sp[Len(sp)] ELSE sq[Len(sq)]

\* C3 as stated: the key of the error is the path of the first pair in
\* conflict with an earlier one, and its token the last segment of the
\* shorter of the two paths in conflict.
ErrorNamesFirstConflict ==
    (UnflattenDone /\ result.kind = "Err") =>
        \E j \in 1..Len(input) :
            /\ FirstInConflict(input, j)
            /\ result.key = input[j].key
            /\ \E k \in 1..(j - 1) :
                  /\ Conflict(input[k].key, input[j].key)
                  /\ result.token = LastOfShorter(input[k].key, input[j].key)

\* Two calls ended alike: Ok with equal trees, or each with an Err.
SameOutcome(r1, r2) ==
    /\ r1.kind = r2.kind
    /\ r1.kind = "Ok" => ValueEq(r1.value, r2.value)

\* C4 as stated: unflatten of the same pairs in any other order ends alike,
\* Ok with an equal tree or Err.
OutcomeIgnoresOrder ==
    UnflattenDone =>
        \A f \in Orders(Len(input)) :
            SameOutcome(result, unflatten([j \in 1..Len(input) |-> input[f[j]]]))

\* No expect or unwrap of unflatten has failed or is about to: the iterator
\* has a segment left at the top of 'inner, the pair it walks is one of the
\* input, and a call that is done has returned Ok, after the last pair and
\* with a mapping, or Err.
NoPanic ==
    /\ result.kind # "Panic"
    /\ pc = "inner" => (split_by_dot # <<>> /\ i \in 1..Len(input))
    /\ pc = "done" => result.kind \in {"Ok", "Err"}
    /\ (pc = "done" /\ result.kind = "Ok") =>
          (i = Len(input) + 1 /\ result.value.kind = "Mapping")
    /\ pc # "done" => result = NoResult

\* Every step of the call brings it nearer its end: an iteration of 'inner
\* leaves fewer segments, or goes on to the next pair, or returns.
WalkAdvances ==
    \/ pc = "unflatten" /\ pc' = "for"
    \/ pc = "for" /\ pc' \in {"inner", "done"} /\ i' = i
    \/ pc = "inner" /\ pc' = "inner" /\ i' = i
           /\ Len(split_by_dot') < Len(split_by_dot)
    \/ pc = "inner" /\ pc' = "for" /\ i' = i + 1
    \/ pc = "inner" /\ pc' = "done"

\* C8: unflatten never panics and every walk ends: whatever the pairs (empty
\* paths, empty segments, values of any kind), the call returns Ok or Err.
UnflattenNeverPanics == [](NoPanic) /\ [][WalkAdvances]_vars

\* unflatten has returned Ok for three pairs, one with the empty path and one
\* whose path ends with the separator.
UnflattenNeverPanicsWitness ==
    /\ UnflattenDone
    /\ result.kind = "Ok"
    /\ Len(input) = 3
    /\ \E j \in 1..3 : input[j].key = <<>>
    /\ \E j \in 1..3 : input[j].key = <<"a", DOT>>

\* Every pair has a leaf for its value: a scalar or a sequence.
LeafPairs(pairs) == \A j \in 1..Len(pairs) : IsLeafKind(pairs[j].value)

\* What is in v at the end of the segments taken as string keys from v down:
\* [ok, value], ok being FALSE when a segment is no key or v is no mapping.
RECURSIVE ValueAtPath(_, _)
ValueAtPath(v, segs) ==
    IF segs = <<>> THEN [ok |-> TRUE, value |-> v]
    ELSE IF v.kind # "Mapping" \/ MappingIndex(v, String(Head(segs))) = 0
    THEN [ok |-> FALSE, value |-> Null]
    ELSE ValueAtPath(v.items[MappingIndex(v, String(Head(segs)))], Tail(segs))

\* The places, as segments from v down, of the mappings v holds at any depth.
RECURSIVE MappingPathsOf(_, _)
MappingPathsOf(v, prefix) ==
    IF v.kind # "Mapping" THEN {}
    ELSE (IF prefix = <<>> THEN {} ELSE {prefix}) \cup
         UNION {MappingPathsOf(v.items[j], Append(prefix, v.keys[j].s)) :
                    j \in 1..Len(v.keys)}

\* Every key of every mapping of v is a string, and no mapping has a key twice.
RECURSIVE StringKeysOnce(_)
StringKeysOnce(v) ==
    v.kind = "Mapping" =>
        /\ \A j \in 1..Len(v.keys) :
              v.keys[j].kind = "String" /\ StringKeysOnce(v.items[j])
        /\ \A j, k \in 1..Len(v.keys) : v.keys[j] = v.keys[k] => j = k

\* The paths of the pairs, as segments.
PathsOf(pairs) == {SplitAt(pairs[j].key) : j \in 1..Len(pairs)}

\* C11: for pairs with leaf values and no two paths the same or one a prefix
\* of the other, unflatten returns Ok with a tree in which every pair's value
\* is at the end of its path's segments taken as string keys from the root
\* (pairs with a common prefix being in the one mapping at that prefix), and
\* in which every leaf is at the path of a pair and every mapping at a strict
\* prefix of one.
UnflattenBuildsTheTreeOfThePaths ==
    (UnflattenDone /\ LeafPairs(input) /\ ~HasConflict(input)) =>
        /\ result.kind = "Ok"
        /\ StringKeysOnce(result.value)
        /\ \A j \in 1..Len(input) :
              LET at == ValueAtPath(result.value, SplitAt(input[j].key))
              IN  at.ok /\ at.value = input[j].value
        /\ \A l \in LeavesOf(result.value, <<>>) : l.path \in PathsOf(input)
        /\ \A p \in MappingPathsOf(result.value, <<>>) :
              \E q \in PathsOf(input) : IsPrefix(p, q) /\ p # q

\* unflatten has returned the tree of three pairs with leaf values, two of
\* them in one mapping under a common first segment.
UnflattenBuildsTheTreeWitness ==
    /\ UnflattenDone /\ LeafPairs(input) /\ ~HasConflict(input)
    /\ Len(input) = 3
    /\ result.kind = "Ok"
    /\ Len(result.value.keys) = 2
    /\ \E j \in 1..2 :
          result.value.items[j].kind = "Mapping" /\ Len(result.value.items[j].keys) = 2

\* C12: flatten of a root that is no mapping (a bare Null, Bool, Number or
\* String, and a bare Sequence) returns the empty flat mapping and does not
\* fail: with the path stack empty nothing is inserted.
BareRootFlattensToNothing ==
    (pc # "flatten" /\ IsLeafKind(tree)) => (~flat.panic /\ flat.output = BTreeNew)

\* flatten has returned for a root that is a sequence with an element in it.
BareRootWitness ==
    /\ pc = "flattened"
    /\ tree.kind = "Sequence" /\ tree.items # <<>>
    /\ ~flat.panic /\ flat.output = BTreeNew

\* The walk is at a segment that is not the last of its path and that is
\* already the key of a mapping.
AtMappingOnTheWay ==
    /\ pc = "inner"
    /\ Len(split_by_dot) > 1
    /\ LET outer == MappingAt(mapping, cursor)
           j == MappingIndex(outer, String(Head(split_by_dot)))
       IN  j # 0 /\ outer.items[j].kind = "Mapping"

\* The walk goes down into the mapping it is at, with no error and nothing
\* written.
Descends ==
    /\ pc' = "inner"
    /\ cursor' = Append(cursor, String(Head(split_by_dot)))
    /\ split_by_dot' = Tail(split_by_dot)
    /\ result' = NoResult
    /\ mapping' = mapping
    /\ i' = i

\* The first pair gives a mapping M at path p and the second a value at p
\* extended by one segment that is no key of M.
SecondPairExtendsFirst ==
    /\ Len(input) >= 2
    /\ input[1].value.kind = "Mapping"
    /\ LET p == SplitAt(input[1].key)
           q == SplitAt(input[2].key)
       IN  /\ Len(q) = Len(p) + 1
           /\ IsPrefix(p, q)
           /\ MappingIndex(input[1].value, String(q[Len(q)])) = 0

\* The second pair has been walked without an error, and having walked it
\* has put its value into M under the new segment.
SecondPairIsInsideFirst ==
    /\ i <= 2 => result = NoResult
    /\ (pc = "for" /\ i = 3) =>
          LET q == SplitAt(input[2].key)
              at == ValueAtPath(mapping, SplitAt(input[1].key))
          IN  /\ at.ok
              /\ at.value = MappingInsert(input[1].value, String(q[Len(q)]),
                                           input[2].value)

\* C13: a segment that is not the last and meets an entry that is a mapping
\* descends into it without an error, whether the mapping was made on the
\* way of an earlier path or was the value of an earlier pair; so a pair
\* (p, M) followed by a pair whose path extends p by a segment that is no key
\* of M succeeds, its value being added inside M.
DescendsIntoExistingMapping ==
    /\ [][AtMappingOnTheWay => Descends]_vars
    /\ [](SecondPairExtendsFirst => SecondPairIsInsideFirst)

\* The second pair has been added inside the non-empty mapping that the
\* first pair gave as its value.
DescendsIntoExistingMappingWitness ==
    /\ call = "unflatten" /\ pc = "for" /\ i = 3
    /\ SecondPairExtendsFirst
    /\ input[1].value # MappingNew
    /\ Len(ValueAtPath(mapping, SplitAt(input[1].key)).value.keys) = 2

\* C14: for pairs with leaf values and no two paths the same or one a prefix
\* of the other, flatten of the tree that unflatten returns succeeds and
\* gives the pairs back, every path with its value and no other entry, also
\* for paths with empty segments.
FlattenOfUnflattenGivesThePairs ==
    (UnflattenDone /\ LeafPairs(input) /\ ~HasConflict(input)) =>
        /\ result.kind = "Ok"
        /\ LET back == flatten(result.value)
           IN  /\ ~back.panic
               /\ Len(back.output) = Len(input)
               /\ \A j \in 1..Len(input) :
                     /\ BTreeHas(back.output, input[j].key)
                     /\ BTreeGet(back.output, input[j].key) = input[j].value

\* unflatten has returned the tree of three pairs with leaf values, among
\* them the empty path and a path with an empty last segment, and flatten of
\* the tree has three entries.
FlattenOfUnflattenWitness ==
    /\ UnflattenDone /\ LeafPairs(input) /\ ~HasConflict(input)
    /\ result.kind = "Ok"
    /\ \E j \in 1..Len(input) : input[j].key = <<>>
    /\ \E j \in 1..Len(input) : input[j].key = <<"a", DOT>>
    /\ Len(flatten(result.value).output) = 3

====
